---- MODULE Spec2Model ----
(***************************************************************************)
(* GitControls (renderer/components/GitOps/GitControls.tsx) of              *)
(* commit-notes: the status-matrix classifier inside fetchGitStatus and    *)
(* the asynchronous action handlers around it.                             *)
(*                                                                         *)
(* Every handler is an async function.  It runs atomically up to its next  *)
(* await; the awaited external call then sits in `calls` until the         *)
(* external capability resolves or rejects it, and the continuation of     *)
(* the handler runs atomically again.  One action of the model is one such *)
(* run.                                                                    *)
(***************************************************************************)
EXTENDS Naturals, Sequences, FiniteSets

VARIABLES
    commitMessage,  \* useState<string>('')
    isLoading,      \* useState<boolean>(false)
    gitStatus,      \* useState<GitStatus | null>(null)
    statusMessage,  \* useState<string>('')
    selectedFile,   \* the selectedFile prop (state of App)
    fileContent,    \* App: useState<string>('')
    editorRef,      \* App: editorRef.current, the document of the mounted Editor
    disk,           \* the files behind window.api.fs
    settings,       \* the persisted settings behind window.api.app.getSettings()
    repo,           \* the repository behind window.api.git: its status matrix
    calls,          \* external calls in flight, with the suspended handler of each
    clicks,         \* UI events handled so far
    last            \* history: the handler run that produced this state

vars == <<commitMessage, isLoading, gitStatus, statusMessage, selectedFile,
          fileContent, editorRef, disk, settings, repo, calls, clicks, last>>

(***************************************************************************)
(* Bounds of the model.                                                    *)
(***************************************************************************)
MaxClicks == 4     \* UI events (clicks, typing, selections) in one behaviour
MaxInFlight == 2   \* external calls in flight at the same time
MaxRows == 2       \* rows of a status matrix drawn by InitClassify

(***************************************************************************)
(* Values.                                                                 *)
(***************************************************************************)
\* null: the state holds no value yet.  A value v is held as <<v>>.
null == <<>>
NoArg == <<>>

\* Paths are sequences of segments: "notes/b.md" is <<"notes", "b.md">>.
A == <<"a.md">>
B == <<"notes", "b.md">>
C == <<"c.md">>

Files == {A, B, C}

\* The files of the tree that App.handleFileSelect is called with.
SelectablePaths == {A, B}

Messages == {"fix"}

\* Content hashes returned by the external commit, as sequences of characters.
Hashes == {<<"1", "2", "3", "4", "5", "6", "7", "8", "9">>,
           <<"1", "2", "3", "4", "5", "6", "f", "8", "9">>}

HeadStatus == {"ABSENT", "PRESENT"}
WorkdirStatus == {"ABSENT", "IDENTICAL", "MODIFIED"}
StageStatus == {"ABSENT", "IDENTICAL", "MODIFIED", "MODIFIED_AGAIN"}

\* One row [filename, head, workTree, stage] of the status matrix.
Row(filename, head, workTree, stage) ==
    [filename |-> filename, head |-> head, workTree |-> workTree, stage |-> stage]

FileChange(filename, isDeleted) == [filename |-> filename, isDeleted |-> isDeleted]

Msg(text, arg) == [text |-> text, arg |-> arg]
NoMessage == Msg("", NoArg)

\* The settings record, as far as the Git panel is concerned: '' is a field
\* that was never filled in.
AppSettingsType ==
    [rootDirectory : [path : {"", "/notes"}],
     git : [remoteUrl : {"", "https://example.com/notes.git"},
            token : {"", "token"}]]

\* App.checkGitSettings: setHasGitSettings(!!settings?.rootDirectory?.path);
\* GitControls is rendered only when hasGitSettings is true.
checkGitSettings(s) == s.rootDirectory.path # ""

ConfiguredSettings ==
    [rootDirectory |-> [path |-> "/notes"],
     git |-> [remoteUrl |-> "https://example.com/notes.git", token |-> "token"]]

(***************************************************************************)
(* App: file contents.  A text is the empty string or a text that began as *)
(* one file's content and may have been edited.  A content held by App     *)
(* (fileContent, the document of the Editor) carries, with its text, the   *)
(* path whose read returned it: from is a history annotation, dropped when *)
(* the content is written.                                                 *)
(***************************************************************************)
NoText == <<>>   \* ''

Text(base, edited) == <<[base |-> base, edited |-> edited]>>

InitDisk == [p \in SelectablePaths |-> IF p = A THEN Text("alpha", FALSE)
                                                ELSE Text("beta", FALSE)]

\* What window.api.fs.readFile(path) resolves with, as App holds it.
Loaded(text, path) ==
    IF text = NoText THEN NoText ELSE <<[text |-> text, from |-> path]>>

\* The string handed to window.api.fs.writeFile.
TextOf(content) == IF content = NoText THEN NoText ELSE content[1].text

\* Typing in the Editor.
Edited(content) == <<[content[1] EXCEPT !.text = Text(@[1].base, TRUE)]>>


(***************************************************************************)
(* The classifier of fetchGitStatus: statusMatrix.forEach(...) pushing     *)
(* onto gitStatus.staged and gitStatus.unstaged.                           *)
(***************************************************************************)
EmptyGitStatus == [staged |-> <<>>, unstaged |-> <<>>]

PushUnstaged(gs, filename, isDeleted) ==
    [gs EXCEPT !.unstaged = Append(@, FileChange(filename, isDeleted))]

\* Mutant: gitStatus.staged.unshift instead of push.
PushStaged_Unshift(gs, filename, isDeleted) ==
    [gs EXCEPT !.staged = <<FileChange(filename, isDeleted)>> \o @]

PushStaged(gs, filename, isDeleted) ==
    [gs EXCEPT !.staged = Append(@, FileChange(filename, isDeleted))]

\* Mutant: the staged deletion [1,0,0] is pushed with isDeleted: false.
ClassifyStatus_DeletionNotFlagged(gs, status) ==
    IF status.stage = "ABSENT" THEN
        LET g1 == IF status.workTree = "MODIFIED" /\ status.head = "ABSENT"
                  THEN PushUnstaged(gs, status.filename, FALSE) ELSE gs
        IN  IF status.workTree = "ABSENT" /\ status.head = "PRESENT"
            THEN PushStaged(g1, status.filename, FALSE) ELSE g1
    ELSE IF status.stage = "IDENTICAL" THEN
        LET g1 == IF status.workTree = "ABSENT"
                  THEN PushUnstaged(gs, status.filename, TRUE) ELSE gs
        IN  IF status.workTree = "MODIFIED"
            THEN PushUnstaged(g1, status.filename, FALSE) ELSE g1
    ELSE IF status.stage = "MODIFIED" THEN
        IF status.workTree = "MODIFIED"
        THEN PushStaged(gs, status.filename, FALSE) ELSE gs
    ELSE IF status.stage = "MODIFIED_AGAIN" THEN
        IF status.workTree = "MODIFIED"
        THEN PushStaged(PushUnstaged(gs, status.filename, FALSE),
                        status.filename, FALSE)
        ELSE gs
    ELSE gs

\* Mutant: the untracked case [0,2,0] forgets to test head, so that
\* [1,2,0] is listed as unstaged too.
ClassifyStatus_HeadNotTested(gs, status) ==
    IF status.stage = "ABSENT" THEN
        LET g1 == IF status.workTree = "MODIFIED"
                  THEN PushUnstaged(gs, status.filename, FALSE) ELSE gs
        IN  IF status.workTree = "ABSENT" /\ status.head = "PRESENT"
            THEN PushStaged(g1, status.filename, TRUE) ELSE g1
    ELSE IF status.stage = "IDENTICAL" THEN
        LET g1 == IF status.workTree = "ABSENT"
                  THEN PushUnstaged(gs, status.filename, TRUE) ELSE gs
        IN  IF status.workTree = "MODIFIED"
            THEN PushUnstaged(g1, status.filename, FALSE) ELSE g1
    ELSE IF status.stage = "MODIFIED" THEN
        IF status.workTree = "MODIFIED"
        THEN PushStaged(gs, status.filename, FALSE) ELSE gs
    ELSE IF status.stage = "MODIFIED_AGAIN" THEN
        IF status.workTree = "MODIFIED"
        THEN PushStaged(PushUnstaged(gs, status.filename, FALSE),
                        status.filename, FALSE)
        ELSE gs
    ELSE gs

\* Mutant: the unstaged deletion [1,0,1] is pushed with isDeleted: false.
ClassifyStatus_UnstagedDeletionNotFlagged(gs, status) ==
    IF status.stage = "ABSENT" THEN
        LET g1 == IF status.workTree = "MODIFIED" /\ status.head = "ABSENT"
                  THEN PushUnstaged(gs, status.filename, FALSE) ELSE gs
        IN  IF status.workTree = "ABSENT" /\ status.head = "PRESENT"
            THEN PushStaged(g1, status.filename, TRUE) ELSE g1
    ELSE IF status.stage = "IDENTICAL" THEN
        LET g1 == IF status.workTree = "ABSENT"
                  THEN PushUnstaged(gs, status.filename, FALSE) ELSE gs
        IN  IF status.workTree = "MODIFIED"
            THEN PushUnstaged(g1, status.filename, FALSE) ELSE g1
    ELSE IF status.stage = "MODIFIED" THEN
        IF status.workTree = "MODIFIED"
        THEN PushStaged(gs, status.filename, FALSE) ELSE gs
    ELSE IF status.stage = "MODIFIED_AGAIN" THEN
        IF status.workTree = "MODIFIED"
        THEN PushStaged(PushUnstaged(gs, status.filename, FALSE),
                        status.filename, FALSE)
        ELSE gs
    ELSE gs

\* The body of the forEach callback, applied to one row.
ClassifyStatus(gs, status) ==
    LET filename == status.filename
        head == status.head
        workTree == status.workTree
        stage == status.stage
    IN  IF stage = "ABSENT" THEN
            LET g1 == IF workTree = "MODIFIED" /\ head = "ABSENT"
                      THEN PushUnstaged(gs, filename, FALSE) ELSE gs
            IN  IF workTree = "ABSENT" /\ head = "PRESENT"
                THEN PushStaged(g1, filename, TRUE) ELSE g1
        ELSE IF stage = "IDENTICAL" THEN
            LET g1 == IF workTree = "ABSENT"
                      THEN PushUnstaged(gs, filename, TRUE) ELSE gs
            IN  IF workTree = "MODIFIED"
                THEN PushUnstaged(g1, filename, FALSE) ELSE g1
        ELSE IF stage = "MODIFIED" THEN
            IF workTree = "MODIFIED"
            THEN PushStaged(gs, filename, FALSE) ELSE gs
        ELSE IF stage = "MODIFIED_AGAIN" THEN
            IF workTree = "MODIFIED"
            THEN PushStaged(PushUnstaged(gs, filename, FALSE), filename, FALSE)
            ELSE gs
        ELSE gs

RECURSIVE ClassifyFrom(_, _, _)
ClassifyFrom(statusMatrix, i, gs) ==
    IF i > Len(statusMatrix) THEN gs
    ELSE ClassifyFrom(statusMatrix, i + 1, ClassifyStatus(gs, statusMatrix[i]))

\* statusMatrix.forEach over a fresh { staged: [], unstaged: [] }.
ClassifyMatrix(statusMatrix) == ClassifyFrom(statusMatrix, 1, EmptyGitStatus)

\* getFileName: path.split('/').pop() || path
getFileName(path) ==
    IF path[Len(path)] # "" THEN <<path[Len(path)]>> ELSE path

\* sha.slice(0, 7)
ShaPrefixLen == 7

\* Mutant: sha.slice(0, 8)
Slice_OneMore(sha) ==
    SubSeq(sha, 1, IF Len(sha) < ShaPrefixLen + 1 THEN Len(sha) ELSE ShaPrefixLen + 1)

Slice(sha) ==
    SubSeq(sha, 1, IF Len(sha) < ShaPrefixLen THEN Len(sha) ELSE ShaPrefixLen)

\* useMemo: commitMessageDisabled
commitMessageDisabled ==
    IF gitStatus = null THEN TRUE ELSE Len(gitStatus[1].staged) = 0

(***************************************************************************)
(* The external Git capability (window.api.git), seen from the renderer:   *)
(* what a successful call does to the repository's status matrix.          *)
(***************************************************************************)
\* git add: the index entry becomes the working copy.
GitAddRow(r) == [r EXCEPT !.stage = r.workTree]

GitAdd(matrix, filename) ==
    [i \in 1..Len(matrix) |->
        IF matrix[i].filename = filename THEN GitAddRow(matrix[i]) ELSE matrix[i]]

\* git unstage (reset of the index entry): the index entry becomes HEAD's.
GitUnstageRow(r) ==
    [r EXCEPT !.stage = IF r.head = "PRESENT" THEN "IDENTICAL" ELSE "ABSENT"]

GitUnstage(matrix, filename) ==
    [i \in 1..Len(matrix) |->
        IF matrix[i].filename = filename THEN GitUnstageRow(matrix[i]) ELSE matrix[i]]

\* git commit: HEAD becomes the index.
GitCommitRow(r) ==
    IF r.stage = "IDENTICAL" THEN r
    ELSE IF r.stage = "ABSENT" THEN
        [r EXCEPT !.head = "ABSENT",
                  !.workTree = IF r.workTree = "ABSENT" THEN "ABSENT" ELSE "MODIFIED"]
    ELSE IF r.stage = "MODIFIED" THEN
        [r EXCEPT !.head = "PRESENT", !.stage = "IDENTICAL",
                  !.workTree = IF r.workTree = "MODIFIED" THEN "IDENTICAL"
                               ELSE IF r.workTree = "IDENTICAL" THEN "MODIFIED"
                               ELSE "ABSENT"]
    ELSE [r EXCEPT !.head = "PRESENT", !.stage = "IDENTICAL"]

GitCommit(matrix) == [i \in 1..Len(matrix) |-> GitCommitRow(matrix[i])]

(***************************************************************************)
(* External calls in flight.  A call carries the handler suspended on it:  *)
(* for handleStageAll / handleUnstageAll the list the for-loop iterates    *)
(* (captured when the handler was invoked) and the position in it; log is  *)
(* every external call the invocation has issued so far.                   *)
(***************************************************************************)
Req(api, arg) == [api |-> api, arg |-> arg]

Call(api, arg, handler, files, idx, log) ==
    [api |-> api, arg |-> arg, handler |-> handler, files |-> files,
     idx |-> idx, log |-> Append(log, Req(api, arg))]

\* fetchGitStatus up to its await: window.api.git.status() is issued.
FetchCall == Call("status", NoArg, "fetchGitStatus", <<>>, 0, <<>>)

StatusReq == Req("status", NoArg)

NoCall == [api |-> "", arg |-> NoArg, handler |-> "", files |-> <<>>, idx |-> 0,
           log |-> <<>>]

\* The handler run that produced the state: which handler, how far it got
\* ("invoke": up to its first await; "continue": from one await to the next;
\* "success" / "failure": to its end, through the try or the catch block;
\* "done": a handler without an await), the call it was suspended on (for
\* "invoke", the call it issued), the value that call resolved with, the
\* calls issued in this run, and whether an error left the handler.
Ran(handler, outcome, call, result, issued) ==
    [handler |-> handler, outcome |-> outcome, call |-> call,
     result |-> result, issued |-> issued, rejected |-> FALSE]

RemoveAt(s, i) == SubSeq(s, 1, i - 1) \o SubSeq(s, i + 1, Len(s))

MutatingApis == {"add", "unstage", "commit", "push", "pull"}

InFlight(apis) == {i \in 1..Len(calls) : calls[i].api \in apis}

\* A UI event is handled: within the bounds of the model.
Click == clicks < MaxClicks /\ clicks' = clicks + 1

CanIssue == Len(calls) < MaxInFlight /\ Click

(***************************************************************************)
(* What the rendered panel offers: a handler can be started from the UI    *)
(* only through an element that is rendered and not disabled.              *)
(***************************************************************************)
StageAllButton ==
    gitStatus # null /\ Len(gitStatus[1].unstaged) > 0 /\ ~isLoading

UnstageAllButton ==
    gitStatus # null /\ Len(gitStatus[1].staged) > 0 /\ ~isLoading

StageFileButton(filename) ==
    /\ gitStatus # null /\ ~isLoading
    /\ \E i \in 1..Len(gitStatus[1].unstaged) : gitStatus[1].unstaged[i].filename = filename

UnstageFileButton(filename) ==
    /\ gitStatus # null /\ ~isLoading
    /\ \E i \in 1..Len(gitStatus[1].staged) : gitStatus[1].staged[i].filename = filename

CommitTextarea == ~commitMessageDisabled

CommitButton == commitMessage # ""

PushButton == ~isLoading

PullButton == ~isLoading

RefreshButton == TRUE

(***************************************************************************)
(* Initial state: the component has mounted and the effect on              *)
(* [selectedFile] has run once, so one status call is in flight.           *)
(***************************************************************************)
InitRepos ==
    { << Row(A, "PRESENT", "MODIFIED", "IDENTICAL"),
         Row(B, "PRESENT", "ABSENT", "IDENTICAL") >>,
      << Row(B, "ABSENT", "MODIFIED", "ABSENT"),
         Row(A, "PRESENT", "MODIFIED", "MODIFIED_AGAIN") >> }

InitControls ==
    /\ commitMessage = ""
    /\ isLoading = FALSE
    /\ gitStatus = null
    /\ statusMessage = NoMessage
    /\ selectedFile = null
    /\ fileContent = NoText
    /\ editorRef = null
    /\ disk = InitDisk
    /\ calls = <<FetchCall>>
    /\ clicks = 0
    /\ last = Ran("useEffect", "invoke", FetchCall, NoArg, <<StatusReq>>)

\* No handler of GitControls reads the settings: Spec starts from the fully
\* configured ones, SpecSettings below from every settings record that lets
\* App render GitControls.
Init == InitControls /\ repo \in InitRepos /\ settings = ConfiguredSettings

(***************************************************************************)
(* fetchGitStatus                                                          *)
(***************************************************************************)
\* Mutant: the forEach pushes onto the lists of the state instead of fresh ones.
FetchResolved_Accumulates(i) ==
    /\ i \in InFlight({"status"})
    /\ gitStatus' = <<ClassifyFrom(repo, 1, IF gitStatus = null THEN EmptyGitStatus
                                            ELSE gitStatus[1])>>
    /\ calls' = RemoveAt(calls, i)
    /\ last' = Ran("fetchGitStatus", "success", calls[i], NoArg, <<>>)
    /\ UNCHANGED <<fileContent, editorRef, disk, settings, commitMessage, isLoading, statusMessage, selectedFile, repo, clicks>>

\* window.api.git.status() resolves: classify and setGitStatus.
FetchResolved(i) ==
    /\ i \in InFlight({"status"})
    /\ gitStatus' = <<ClassifyMatrix(repo)>>
    /\ calls' = RemoveAt(calls, i)
    /\ last' = Ran("fetchGitStatus", "success", calls[i], NoArg, <<>>)
    /\ UNCHANGED <<fileContent, editorRef, disk, settings, commitMessage, isLoading, statusMessage, selectedFile, repo, clicks>>

\* Mutant: the catch block of fetchGitStatus resets gitStatus.
FetchRejected_ClearsStatus(i) ==
    /\ i \in InFlight({"status"})
    /\ gitStatus' = null
    /\ statusMessage' = Msg("statusFetchFailed", NoArg)
    /\ calls' = RemoveAt(calls, i)
    /\ last' = Ran("fetchGitStatus", "failure", calls[i], NoArg, <<>>)
    /\ UNCHANGED <<fileContent, editorRef, disk, settings, commitMessage, isLoading, selectedFile, repo, clicks>>

\* window.api.git.status() rejects: the catch block.
FetchRejected(i) ==
    /\ i \in InFlight({"status"})
    /\ statusMessage' = Msg("statusFetchFailed", NoArg)
    /\ calls' = RemoveAt(calls, i)
    /\ last' = Ran("fetchGitStatus", "failure", calls[i], NoArg, <<>>)
    /\ UNCHANGED <<fileContent, editorRef, disk, settings, commitMessage, isLoading, gitStatus, selectedFile, repo, clicks>>

\* useEffect(() => { fetchGitStatus(); }, [selectedFile]) after
\* App.handleFileSelect has set another selectedFile.
SelectFile(path) ==
    /\ path # selectedFile
    /\ CanIssue
    /\ selectedFile' = path
    /\ calls' = Append(calls, FetchCall)
    /\ last' = Ran("useEffect", "invoke", FetchCall, NoArg, <<StatusReq>>)
    /\ UNCHANGED <<fileContent, editorRef, disk, settings, commitMessage, isLoading, gitStatus, statusMessage, repo>>

handleRefreshStatus ==
    /\ RefreshButton
    /\ CanIssue
    /\ calls' = Append(calls, FetchCall)
    /\ statusMessage' = Msg("statusRefreshed", NoArg)
    /\ last' = Ran("handleRefreshStatus", "invoke", FetchCall, NoArg, <<StatusReq>>)
    /\ UNCHANGED <<fileContent, editorRef, disk, settings, commitMessage, isLoading, gitStatus, selectedFile, repo>>

\* onChange={(e) => setCommitMessage(e.target.value)}
SetCommitMessage(value) ==
    /\ CommitTextarea
    /\ Click
    /\ value # commitMessage
    /\ commitMessage' = value
    /\ last' = Ran("setCommitMessage", "done", NoCall, NoArg, <<>>)
    /\ UNCHANGED <<fileContent, editorRef, disk, settings, isLoading, gitStatus, statusMessage, selectedFile, repo, calls>>

(***************************************************************************)
(* handleCommit                                                            *)
(***************************************************************************)
handleCommit ==
    /\ CommitButton
    /\ commitMessage # ""                    \* if (!commitMessage) return;
    /\ CanIssue
    /\ isLoading' = TRUE
    /\ LET c == Call("commit", <<commitMessage>>, "handleCommit", <<>>,
                     0, <<>>)
       IN  /\ calls' = Append(calls, c)
           /\ last' = Ran("handleCommit", "invoke", c, NoArg, <<Req(c.api, c.arg)>>)
    /\ UNCHANGED <<fileContent, editorRef, disk, settings, commitMessage, gitStatus, statusMessage, selectedFile, repo>>

\* The commit resolves with the content hash sha: the rest of the try block,
\* then finally.
CommitResolved(i, sha) ==
    /\ i \in InFlight({"commit"})
    /\ calls[i].handler = "handleCommit"
    /\ repo' = GitCommit(repo)
    /\ commitMessage' = ""
    /\ statusMessage' = Msg("committed", Slice(sha))
    /\ calls' = Append(RemoveAt(calls, i), FetchCall)
    /\ isLoading' = FALSE
    /\ last' = Ran("handleCommit", "success", calls[i], sha, <<StatusReq>>)
    /\ UNCHANGED <<fileContent, editorRef, disk, settings, gitStatus, selectedFile, clicks>>

\* Mutant: the catch block of handleCommit clears the commit message.
CommitRejected_ClearsMessage(i) ==
    /\ i \in InFlight({"commit"})
    /\ calls[i].handler = "handleCommit"
    /\ commitMessage' = ""
    /\ statusMessage' = Msg("commitFailed", NoArg)
    /\ calls' = RemoveAt(calls, i)
    /\ isLoading' = FALSE
    /\ last' = Ran("handleCommit", "failure", calls[i], NoArg, <<>>)
    /\ UNCHANGED <<fileContent, editorRef, disk, settings, gitStatus, selectedFile, repo, clicks>>

\* Mutant: the catch block of handleCommit issues the commit once more.
CommitRejected_Retries(i) ==
    /\ i \in InFlight({"commit"})
    /\ calls[i].handler = "handleCommit"
    /\ statusMessage' = Msg("commitFailed", NoArg)
    /\ LET c == Call("commit", calls[i].arg, "handleCommit", <<>>, 0, <<>>)
       IN  /\ calls' = Append(RemoveAt(calls, i), c)
           /\ last' = Ran("handleCommit", "failure", calls[i], NoArg, <<Req(c.api, c.arg)>>)
    /\ UNCHANGED <<fileContent, editorRef, disk, settings, commitMessage, isLoading, gitStatus, selectedFile, repo, clicks>>

CommitRejected(i) ==
    /\ i \in InFlight({"commit"})
    /\ calls[i].handler = "handleCommit"
    /\ statusMessage' = Msg("commitFailed", NoArg)
    /\ calls' = RemoveAt(calls, i)
    /\ isLoading' = FALSE
    /\ last' = Ran("handleCommit", "failure", calls[i], NoArg, <<>>)
    /\ UNCHANGED <<fileContent, editorRef, disk, settings, commitMessage, gitStatus, selectedFile, repo, clicks>>

(***************************************************************************)
(* handlePush                                                              *)
(***************************************************************************)
handlePush ==
    /\ PushButton
    /\ CanIssue
    /\ isLoading' = TRUE
    /\ LET c == Call("push", NoArg, "handlePush", <<>>,
                     0, <<>>)
       IN  /\ calls' = Append(calls, c)
           /\ last' = Ran("handlePush", "invoke", c, NoArg, <<Req(c.api, c.arg)>>)
    /\ UNCHANGED <<fileContent, editorRef, disk, settings, commitMessage, gitStatus, statusMessage, selectedFile, repo>>

\* Mutant: handlePush calls fetchGitStatus after a successful push, as
\* handlePull does.
PushResolved_Refreshes(i) ==
    /\ i \in InFlight({"push"})
    /\ calls[i].handler = "handlePush"
    /\ statusMessage' = Msg("pushed", NoArg)
    /\ calls' = Append(RemoveAt(calls, i), FetchCall)
    /\ isLoading' = FALSE
    /\ last' = Ran("handlePush", "success", calls[i], NoArg, <<StatusReq>>)
    /\ UNCHANGED <<fileContent, editorRef, disk, settings, commitMessage, gitStatus, selectedFile, repo, clicks>>

PushResolved(i) ==
    /\ i \in InFlight({"push"})
    /\ calls[i].handler = "handlePush"
    /\ statusMessage' = Msg("pushed", NoArg)
    /\ calls' = RemoveAt(calls, i)
    /\ isLoading' = FALSE
    /\ last' = Ran("handlePush", "success", calls[i], NoArg, <<>>)
    /\ UNCHANGED <<fileContent, editorRef, disk, settings, commitMessage, gitStatus, selectedFile, repo, clicks>>

\* Mutant: the failure path of handlePush leaves isLoading as it is.
PushRejected_NoFinally(i) ==
    /\ i \in InFlight({"push"})
    /\ calls[i].handler = "handlePush"
    /\ statusMessage' = Msg("pushFailed", NoArg)
    /\ calls' = RemoveAt(calls, i)
    /\ last' = Ran("handlePush", "failure", calls[i], NoArg, <<>>)
    /\ UNCHANGED <<fileContent, editorRef, disk, settings, isLoading, commitMessage, gitStatus, selectedFile, repo, clicks>>

PushRejected(i) ==
    /\ i \in InFlight({"push"})
    /\ calls[i].handler = "handlePush"
    /\ statusMessage' = Msg("pushFailed", NoArg)
    /\ calls' = RemoveAt(calls, i)
    /\ isLoading' = FALSE
    /\ last' = Ran("handlePush", "failure", calls[i], NoArg, <<>>)
    /\ UNCHANGED <<fileContent, editorRef, disk, settings, commitMessage, gitStatus, selectedFile, repo, clicks>>

(***************************************************************************)
(* handlePull                                                              *)
(***************************************************************************)
handlePull ==
    /\ PullButton
    /\ CanIssue
    /\ isLoading' = TRUE
    /\ LET c == Call("pull", NoArg, "handlePull", <<>>,
                     0, <<>>)
       IN  /\ calls' = Append(calls, c)
           /\ last' = Ran("handlePull", "invoke", c, NoArg, <<Req(c.api, c.arg)>>)
    /\ UNCHANGED <<fileContent, editorRef, disk, settings, commitMessage, gitStatus, statusMessage, selectedFile, repo>>

PullResolved(i) ==
    /\ i \in InFlight({"pull"})
    /\ calls[i].handler = "handlePull"
    /\ statusMessage' = Msg("pulled", NoArg)
    /\ calls' = Append(RemoveAt(calls, i), FetchCall)
    /\ isLoading' = FALSE
    /\ last' = Ran("handlePull", "success", calls[i], NoArg, <<StatusReq>>)
    /\ UNCHANGED <<fileContent, editorRef, disk, settings, commitMessage, gitStatus, selectedFile, repo, clicks>>

PullRejected(i) ==
    /\ i \in InFlight({"pull"})
    /\ calls[i].handler = "handlePull"
    /\ statusMessage' = Msg("pullFailed", NoArg)
    /\ calls' = RemoveAt(calls, i)
    /\ isLoading' = FALSE
    /\ last' = Ran("handlePull", "failure", calls[i], NoArg, <<>>)
    /\ UNCHANGED <<fileContent, editorRef, disk, settings, commitMessage, gitStatus, selectedFile, repo, clicks>>

(***************************************************************************)
(* handleStageFile / handleUnstageFile                                     *)
(***************************************************************************)
\* Mutant: the add is issued with the displayed name, getFileName(filename).
handleStageFile_DisplayedName(filename) ==
    /\ StageFileButton(filename)
    /\ CanIssue
    /\ isLoading' = TRUE
    /\ LET c == Call("add", getFileName(filename), "handleStageFile", <<>>,
                     0, <<>>)
       IN  /\ calls' = Append(calls, c)
           /\ last' = Ran("handleStageFile", "invoke", c, NoArg, <<Req(c.api, c.arg)>>)
    /\ UNCHANGED <<fileContent, editorRef, disk, settings, commitMessage, gitStatus, statusMessage, selectedFile, repo>>

handleStageFile(filename) ==
    /\ StageFileButton(filename)
    /\ CanIssue
    /\ isLoading' = TRUE
    /\ LET c == Call("add", filename, "handleStageFile", <<>>,
                     0, <<>>)
       IN  /\ calls' = Append(calls, c)
           /\ last' = Ran("handleStageFile", "invoke", c, NoArg, <<Req(c.api, c.arg)>>)
    /\ UNCHANGED <<fileContent, editorRef, disk, settings, commitMessage, gitStatus, statusMessage, selectedFile, repo>>

\* Mutant: handleStageFile does not call fetchGitStatus after the add.
StageFileResolved_NoRefresh(i) ==
    /\ i \in InFlight({"add"})
    /\ calls[i].handler = "handleStageFile"
    /\ repo' = GitAdd(repo, calls[i].arg)
    /\ statusMessage' = Msg("staged", getFileName(calls[i].arg))
    /\ calls' = RemoveAt(calls, i)
    /\ isLoading' = FALSE
    /\ last' = Ran("handleStageFile", "success", calls[i], NoArg, <<>>)
    /\ UNCHANGED <<fileContent, editorRef, disk, settings, commitMessage, gitStatus, selectedFile, clicks>>

StageFileResolved(i) ==
    /\ i \in InFlight({"add"})
    /\ calls[i].handler = "handleStageFile"
    /\ repo' = GitAdd(repo, calls[i].arg)
    /\ statusMessage' = Msg("staged", getFileName(calls[i].arg))
    /\ calls' = Append(RemoveAt(calls, i), FetchCall)
    /\ isLoading' = FALSE
    /\ last' = Ran("handleStageFile", "success", calls[i], NoArg, <<StatusReq>>)
    /\ UNCHANGED <<fileContent, editorRef, disk, settings, commitMessage, gitStatus, selectedFile, clicks>>

StageFileRejected(i) ==
    /\ i \in InFlight({"add"})
    /\ calls[i].handler = "handleStageFile"
    /\ statusMessage' = Msg("stageFailed", getFileName(calls[i].arg))
    /\ calls' = RemoveAt(calls, i)
    /\ isLoading' = FALSE
    /\ last' = Ran("handleStageFile", "failure", calls[i], NoArg, <<>>)
    /\ UNCHANGED <<fileContent, editorRef, disk, settings, commitMessage, gitStatus, selectedFile, repo, clicks>>

handleUnstageFile(filename) ==
    /\ UnstageFileButton(filename)
    /\ CanIssue
    /\ isLoading' = TRUE
    /\ LET c == Call("unstage", filename, "handleUnstageFile", <<>>,
                     0, <<>>)
       IN  /\ calls' = Append(calls, c)
           /\ last' = Ran("handleUnstageFile", "invoke", c, NoArg, <<Req(c.api, c.arg)>>)
    /\ UNCHANGED <<fileContent, editorRef, disk, settings, commitMessage, gitStatus, statusMessage, selectedFile, repo>>

UnstageFileResolved(i) ==
    /\ i \in InFlight({"unstage"})
    /\ calls[i].handler = "handleUnstageFile"
    /\ repo' = GitUnstage(repo, calls[i].arg)
    /\ statusMessage' = Msg("unstaged", getFileName(calls[i].arg))
    /\ calls' = Append(RemoveAt(calls, i), FetchCall)
    /\ isLoading' = FALSE
    /\ last' = Ran("handleUnstageFile", "success", calls[i], NoArg, <<StatusReq>>)
    /\ UNCHANGED <<fileContent, editorRef, disk, settings, commitMessage, gitStatus, selectedFile, clicks>>

UnstageFileRejected(i) ==
    /\ i \in InFlight({"unstage"})
    /\ calls[i].handler = "handleUnstageFile"
    /\ statusMessage' = Msg("unstageFailed", getFileName(calls[i].arg))
    /\ calls' = RemoveAt(calls, i)
    /\ isLoading' = FALSE
    /\ last' = Ran("handleUnstageFile", "failure", calls[i], NoArg, <<>>)
    /\ UNCHANGED <<fileContent, editorRef, disk, settings, commitMessage, gitStatus, selectedFile, repo, clicks>>

(***************************************************************************)
(* handleStageAll / handleUnstageAll: for (const file of ...) await ...    *)
(* over the list of the render in which the button was clicked.            *)
(***************************************************************************)
\* Mutant: setIsLoading(true) comes before the test of the list.
handleStageAllReturns_SetsLoading ==
    /\ IF gitStatus = null THEN TRUE ELSE Len(gitStatus[1].unstaged) = 0
    /\ Click
    /\ isLoading' = TRUE
    /\ last' = Ran("handleStageAll", "done", NoCall, NoArg, <<>>)
    /\ UNCHANGED <<fileContent, editorRef, disk, settings, commitMessage, gitStatus, statusMessage, selectedFile, repo, calls>>

\* if (!gitStatus || gitStatus.unstaged.length === 0) return;
\* The panel renders the button only over a non-empty unstaged list, so this
\* branch is taken only when the handler is invoked otherwise (SpecHandlers).
handleStageAllReturns ==
    /\ IF gitStatus = null THEN TRUE ELSE Len(gitStatus[1].unstaged) = 0
    /\ Click
    /\ last' = Ran("handleStageAll", "done", NoCall, NoArg, <<>>)
    /\ UNCHANGED <<fileContent, editorRef, disk, settings, commitMessage, isLoading, gitStatus, statusMessage, selectedFile,
                   repo, calls>>

\* Mutant: the loop iterates gitStatus.staged instead of gitStatus.unstaged.
handleStageAll_OverStaged ==
    /\ StageAllButton
    /\ ~(gitStatus = null \/ Len(gitStatus[1].unstaged) = 0)
    /\ CanIssue
    /\ IF Len(gitStatus[1].staged) = 0
       THEN /\ isLoading' = FALSE
            /\ statusMessage' = Msg("stagedAll", NoArg)
            /\ calls' = Append(calls, FetchCall)
            /\ last' = Ran("handleStageAll", "success", NoCall, NoArg, <<StatusReq>>)
       ELSE /\ isLoading' = TRUE
            /\ statusMessage' = statusMessage
            /\ LET c == Call("add", gitStatus[1].staged[1].filename, "handleStageAll",
                             gitStatus[1].staged, 1, <<>>)
               IN  /\ calls' = Append(calls, c)
                   /\ last' = Ran("handleStageAll", "invoke", c, NoArg,
                                  <<Req(c.api, c.arg)>>)
    /\ UNCHANGED <<fileContent, editorRef, disk, settings, commitMessage, gitStatus, selectedFile, repo>>

handleStageAll ==
    /\ StageAllButton
    /\ ~(gitStatus = null \/ Len(gitStatus[1].unstaged) = 0)
    /\ CanIssue
    /\ isLoading' = TRUE
    /\ LET c == Call("add", gitStatus[1].unstaged[1].filename, "handleStageAll", gitStatus[1].unstaged,
                     1, <<>>)
       IN  /\ calls' = Append(calls, c)
           /\ last' = Ran("handleStageAll", "invoke", c, NoArg, <<Req(c.api, c.arg)>>)
    /\ UNCHANGED <<fileContent, editorRef, disk, settings, commitMessage, gitStatus, statusMessage, selectedFile, repo>>

\* Mutant: the loop issues the add of the file it has just staged once more.
StageAllNext_RepeatsFile(i) ==
    /\ i \in InFlight({"add"})
    /\ calls[i].handler = "handleStageAll"
    /\ calls[i].idx < Len(calls[i].files)
    /\ repo' = GitAdd(repo, calls[i].arg)
    /\ LET files == calls[i].files
           idx == calls[i].idx + 1
           c == Call("add", files[calls[i].idx].filename, "handleStageAll", files, idx,
                     calls[i].log)
       IN  /\ calls' = Append(RemoveAt(calls, i), c)
           /\ last' = Ran("handleStageAll", "continue", calls[i], NoArg, <<Req(c.api, c.arg)>>)
    /\ UNCHANGED <<fileContent, editorRef, disk, settings, commitMessage, isLoading, gitStatus, statusMessage, selectedFile, clicks>>

\* One add has resolved and the loop has another file: the next add is issued.
StageAllNext(i) ==
    /\ i \in InFlight({"add"})
    /\ calls[i].handler = "handleStageAll"
    /\ calls[i].idx < Len(calls[i].files)
    /\ repo' = GitAdd(repo, calls[i].arg)
    /\ LET files == calls[i].files
           idx == calls[i].idx + 1
           c == Call("add", files[idx].filename, "handleStageAll", files, idx,
                     calls[i].log)
       IN  /\ calls' = Append(RemoveAt(calls, i), c)
           /\ last' = Ran("handleStageAll", "continue", calls[i], NoArg, <<Req(c.api, c.arg)>>)
    /\ UNCHANGED <<fileContent, editorRef, disk, settings, commitMessage, isLoading, gitStatus, statusMessage, selectedFile, clicks>>

\* The last add has resolved: message, fetchGitStatus(), finally.
StageAllResolved(i) ==
    /\ i \in InFlight({"add"})
    /\ calls[i].handler = "handleStageAll"
    /\ calls[i].idx = Len(calls[i].files)
    /\ repo' = GitAdd(repo, calls[i].arg)
    /\ statusMessage' = Msg("stagedAll", NoArg)
    /\ calls' = Append(RemoveAt(calls, i), FetchCall)
    /\ isLoading' = FALSE
    /\ last' = Ran("handleStageAll", "success", calls[i], NoArg, <<StatusReq>>)
    /\ UNCHANGED <<fileContent, editorRef, disk, settings, commitMessage, gitStatus, selectedFile, clicks>>

\* Mutant: after a rejected add the loop goes on with the next file.
StageAllRejected_Continues(i) ==
    /\ i \in InFlight({"add"})
    /\ calls[i].handler = "handleStageAll"
    /\ statusMessage' = Msg("stageAllFailed", NoArg)
    /\ IF calls[i].idx < Len(calls[i].files)
       THEN LET c == Call("add", calls[i].files[calls[i].idx + 1].filename,
                          "handleStageAll", calls[i].files, calls[i].idx + 1,
                          calls[i].log)
            IN  /\ calls' = Append(RemoveAt(calls, i), c)
                /\ isLoading' = isLoading
                /\ last' = Ran("handleStageAll", "failure", calls[i], NoArg,
                               <<Req(c.api, c.arg)>>)
       ELSE /\ calls' = RemoveAt(calls, i)
            /\ isLoading' = FALSE
            /\ last' = Ran("handleStageAll", "failure", calls[i], NoArg, <<>>)
    /\ UNCHANGED <<fileContent, editorRef, disk, settings, commitMessage, gitStatus, selectedFile, repo, clicks>>

\* An add has rejected: the catch block leaves the loop, then finally.
StageAllRejected(i) ==
    /\ i \in InFlight({"add"})
    /\ calls[i].handler = "handleStageAll"
    /\ statusMessage' = Msg("stageAllFailed", NoArg)
    /\ calls' = RemoveAt(calls, i)
    /\ isLoading' = FALSE
    /\ last' = Ran("handleStageAll", "failure", calls[i], NoArg, <<>>)
    /\ UNCHANGED <<fileContent, editorRef, disk, settings, commitMessage, gitStatus, selectedFile, repo, clicks>>

\* if (!gitStatus || gitStatus.staged.length === 0) return;
handleUnstageAllReturns ==
    /\ IF gitStatus = null THEN TRUE ELSE Len(gitStatus[1].staged) = 0
    /\ Click
    /\ last' = Ran("handleUnstageAll", "done", NoCall, NoArg, <<>>)
    /\ UNCHANGED <<fileContent, editorRef, disk, settings, commitMessage, isLoading, gitStatus, statusMessage, selectedFile,
                   repo, calls>>

\* Mutant: the unstage calls of all files are issued at once (Promise.all).
handleUnstageAll_Parallel ==
    /\ UnstageAllButton
    /\ ~(gitStatus = null \/ Len(gitStatus[1].staged) = 0)
    /\ CanIssue
    /\ isLoading' = TRUE
    /\ LET files == gitStatus[1].staged
           cs == [k \in 1..Len(files) |->
                    Call("unstage", files[k].filename, "handleUnstageAll", files, k, <<>>)]
       IN  /\ calls' = calls \o cs
           /\ last' = Ran("handleUnstageAll", "invoke", cs[1], NoArg,
                          [k \in 1..Len(files) |-> Req("unstage", files[k].filename)])
    /\ UNCHANGED <<fileContent, editorRef, disk, settings, commitMessage, gitStatus, statusMessage, selectedFile, repo>>

handleUnstageAll ==
    /\ UnstageAllButton
    /\ ~(gitStatus = null \/ Len(gitStatus[1].staged) = 0)
    /\ CanIssue
    /\ isLoading' = TRUE
    /\ LET c == Call("unstage", gitStatus[1].staged[1].filename, "handleUnstageAll", gitStatus[1].staged,
                     1, <<>>)
       IN  /\ calls' = Append(calls, c)
           /\ last' = Ran("handleUnstageAll", "invoke", c, NoArg, <<Req(c.api, c.arg)>>)
    /\ UNCHANGED <<fileContent, editorRef, disk, settings, commitMessage, gitStatus, statusMessage, selectedFile, repo>>

UnstageAllNext(i) ==
    /\ i \in InFlight({"unstage"})
    /\ calls[i].handler = "handleUnstageAll"
    /\ calls[i].idx < Len(calls[i].files)
    /\ repo' = GitUnstage(repo, calls[i].arg)
    /\ LET files == calls[i].files
           idx == calls[i].idx + 1
           c == Call("unstage", files[idx].filename, "handleUnstageAll", files, idx,
                     calls[i].log)
       IN  /\ calls' = Append(RemoveAt(calls, i), c)
           /\ last' = Ran("handleUnstageAll", "continue", calls[i], NoArg, <<Req(c.api, c.arg)>>)
    /\ UNCHANGED <<fileContent, editorRef, disk, settings, commitMessage, isLoading, gitStatus, statusMessage, selectedFile, clicks>>

\* Mutant: fetchGitStatus is called twice after the loop.
UnstageAllResolved_RefreshesTwice(i) ==
    /\ i \in InFlight({"unstage"})
    /\ calls[i].handler = "handleUnstageAll"
    /\ calls[i].idx = Len(calls[i].files)
    /\ repo' = GitUnstage(repo, calls[i].arg)
    /\ statusMessage' = Msg("unstagedAll", NoArg)
    /\ calls' = RemoveAt(calls, i) \o <<FetchCall, FetchCall>>
    /\ isLoading' = FALSE
    /\ last' = Ran("handleUnstageAll", "success", calls[i], NoArg, <<StatusReq, StatusReq>>)
    /\ UNCHANGED <<fileContent, editorRef, disk, settings, commitMessage, gitStatus, selectedFile, clicks>>

UnstageAllResolved(i) ==
    /\ i \in InFlight({"unstage"})
    /\ calls[i].handler = "handleUnstageAll"
    /\ calls[i].idx = Len(calls[i].files)
    /\ repo' = GitUnstage(repo, calls[i].arg)
    /\ statusMessage' = Msg("unstagedAll", NoArg)
    /\ calls' = Append(RemoveAt(calls, i), FetchCall)
    /\ isLoading' = FALSE
    /\ last' = Ran("handleUnstageAll", "success", calls[i], NoArg, <<StatusReq>>)
    /\ UNCHANGED <<fileContent, editorRef, disk, settings, commitMessage, gitStatus, selectedFile, clicks>>

UnstageAllRejected(i) ==
    /\ i \in InFlight({"unstage"})
    /\ calls[i].handler = "handleUnstageAll"
    /\ statusMessage' = Msg("unstageAllFailed", NoArg)
    /\ calls' = RemoveAt(calls, i)
    /\ isLoading' = FALSE
    /\ last' = Ran("handleUnstageAll", "failure", calls[i], NoArg, <<>>)
    /\ UNCHANGED <<fileContent, editorRef, disk, settings, commitMessage, gitStatus, selectedFile, repo, clicks>>

(***************************************************************************)
(* App: handleFileSelect and handleSave.                                   *)
(***************************************************************************)
ReadCall(filePath) == Call("readFile", filePath, "handleFileSelect", <<>>, 0, <<>>)

WriteCall(filePath, content) ==
    Call("writeFile", [path |-> filePath, content |-> content], "handleSave",
         <<>>, 0, <<>>)

\* handleFileSelect up to its await: setSelectedFile(filePath), then
\* window.api.fs.readFile(filePath) is issued.  When the selection changed,
\* the effect of GitControls on [selectedFile] runs after the render.
handleFileSelect(filePath) ==
    LET effect == IF filePath # selectedFile THEN <<FetchCall>> ELSE <<>>
    IN  /\ Len(calls) + 1 + Len(effect) <= MaxInFlight
        /\ Click
        /\ selectedFile' = filePath
        /\ calls' = Append(calls, ReadCall(filePath)) \o effect
        /\ last' = Ran("handleFileSelect", "invoke", ReadCall(filePath), NoArg,
                       <<Req("readFile", filePath)>>)
        /\ UNCHANGED <<fileContent, editorRef, disk, settings, commitMessage, isLoading, gitStatus, statusMessage, repo>>

\* readFile resolves: setFileContent(content).  {fileContent && <Editor
\* initialContent={fileContent} ref={editorRef} />}: an empty content
\* unmounts the Editor, a content after an empty one mounts it with that
\* content; an Editor that stays mounted receives another initialContent
\* and either loads it or keeps its document.
ReadResolved(i) ==
    /\ i \in InFlight({"readFile"})
    /\ LET content == Loaded(disk[calls[i].arg], calls[i].arg)
       IN  /\ fileContent' = content
           /\ editorRef' \in IF content = NoText THEN {null}
                              ELSE IF fileContent = NoText THEN {content}
                              ELSE {content, editorRef}
    /\ calls' = RemoveAt(calls, i)
    /\ last' = Ran("handleFileSelect", "success", calls[i], NoArg, <<>>)
    /\ UNCHANGED <<disk, settings, commitMessage, isLoading, gitStatus, statusMessage, selectedFile, repo, clicks>>

\* readFile rejects: the catch block logs; selectedFile stays set.
ReadRejected(i) ==
    /\ i \in InFlight({"readFile"})
    /\ calls' = RemoveAt(calls, i)
    /\ last' = Ran("handleFileSelect", "failure", calls[i], NoArg, <<>>)
    /\ UNCHANGED <<fileContent, editorRef, disk, settings, commitMessage, isLoading, gitStatus, statusMessage, selectedFile, repo, clicks>>

\* The user edits the document of the mounted Editor.
EditMarkdown ==
    /\ editorRef # null
    /\ ~editorRef[1].text[1].edited
    /\ Click
    /\ editorRef' = Edited(editorRef)
    /\ calls' = calls
    /\ last' = Ran("Editor", "done", NoCall, NoArg, <<>>)
    /\ UNCHANGED <<fileContent, disk, settings, commitMessage, isLoading, gitStatus, statusMessage, selectedFile, repo>>

SaveButton == selectedFile # null

\* handleSave up to its await: contentToSave is fileContent, or
\* editorRef.current.getMarkdown() when the Editor is mounted;
\* window.api.fs.writeFile(selectedFile, contentToSave) is issued.
handleSave ==
    /\ SaveButton
    /\ CanIssue
    /\ LET contentToSave == IF editorRef # null THEN editorRef ELSE fileContent
           call == WriteCall(selectedFile, contentToSave)
       IN  /\ calls' = Append(calls, call)
           /\ last' = Ran("handleSave", "invoke", call, NoArg,
                          <<Req("writeFile", call.arg)>>)
    /\ UNCHANGED <<fileContent, editorRef, disk, settings, commitMessage, isLoading, gitStatus, statusMessage, selectedFile, repo>>

\* writeFile resolves: the file holds the text.
WriteResolved(i) ==
    /\ i \in InFlight({"writeFile"})
    /\ disk' = [disk EXCEPT ![calls[i].arg.path] = TextOf(calls[i].arg.content)]
    /\ calls' = RemoveAt(calls, i)
    /\ last' = Ran("handleSave", "success", calls[i], NoArg, <<>>)
    /\ UNCHANGED <<fileContent, editorRef, settings, commitMessage, isLoading, gitStatus, statusMessage, selectedFile, repo, clicks>>

\* writeFile rejects: the catch block logs.
WriteRejected(i) ==
    /\ i \in InFlight({"writeFile"})
    /\ calls' = RemoveAt(calls, i)
    /\ last' = Ran("handleSave", "failure", calls[i], NoArg, <<>>)
    /\ UNCHANGED <<fileContent, editorRef, disk, settings, commitMessage, isLoading, gitStatus, statusMessage, selectedFile, repo, clicks>>

(***************************************************************************)
(* Specifications.                                                         *)
(***************************************************************************)
Slots == 1..MaxInFlight

Refresh ==
    \/ handleRefreshStatus
    \/ \E path \in SelectablePaths : SelectFile(path)
    \/ \E i \in Slots : FetchResolved(i)
    \/ \E i \in Slots : FetchRejected(i)

Commit ==
    \/ \E value \in Messages \cup {""} : SetCommitMessage(value)
    \/ handleCommit
    \/ \E i \in Slots, sha \in Hashes : CommitResolved(i, sha)
    \/ \E i \in Slots : CommitRejected(i)

PushPull ==
    \/ handlePush
    \/ \E i \in Slots : PushResolved(i)
    \/ \E i \in Slots : PushRejected(i)
    \/ handlePull
    \/ \E i \in Slots : PullResolved(i)
    \/ \E i \in Slots : PullRejected(i)

StageOne ==
    \/ \E filename \in Files : handleStageFile(filename)
    \/ \E i \in Slots : StageFileResolved(i)
    \/ \E i \in Slots : StageFileRejected(i)
    \/ \E filename \in Files : handleUnstageFile(filename)
    \/ \E i \in Slots : UnstageFileResolved(i)
    \/ \E i \in Slots : UnstageFileRejected(i)

StageEvery ==
    \/ handleStageAll
    \/ \E i \in Slots : StageAllNext(i)
    \/ \E i \in Slots : StageAllResolved(i)
    \/ \E i \in Slots : StageAllRejected(i)
    \/ handleUnstageAll
    \/ \E i \in Slots : UnstageAllNext(i)
    \/ \E i \in Slots : UnstageAllResolved(i)
    \/ \E i \in Slots : UnstageAllRejected(i)

Next == Refresh \/ Commit \/ PushPull \/ StageOne \/ StageEvery

Spec == Init /\ [][Next]_vars

(***************************************************************************)
(* The classifier alone: fetchGitStatus applied once to every status       *)
(* matrix of at most MaxRows rows over distinct files.                     *)
(***************************************************************************)
Codes == [head : HeadStatus, workTree : WorkdirStatus, stage : StageStatus]

FileOrders(n) ==
    {fs \in [1..n -> Files] : \A i, j \in 1..n : fs[i] = fs[j] => i = j}

Matrices(n) ==
    { [i \in 1..n |-> Row(fs[i], c[i].head, c[i].workTree, c[i].stage)] :
        fs \in FileOrders(n), c \in [1..n -> Codes] }

InitClassify ==
    /\ InitControls
    /\ settings = ConfiguredSettings
    /\ \E n \in 0..MaxRows : repo \in Matrices(n)

NextClassify ==
    \/ \E i \in Slots : FetchResolved(i)
    \/ \E i \in Slots : FetchRejected(i)

SpecClassify == InitClassify /\ [][NextClassify]_vars

(***************************************************************************)
(* Push and pull under every settings record with which App renders        *)
(* GitControls (hasGitSettings), the remote URL and the token filled in or *)
(* not.                                                                    *)
(***************************************************************************)
InitSettings ==
    /\ InitControls
    /\ repo \in InitRepos
    /\ settings \in {s \in AppSettingsType : checkGitSettings(s)}

NextSettings ==
    \/ PushPull
    \/ \E i \in Slots : FetchResolved(i)
    \/ \E i \in Slots : FetchRejected(i)

SpecSettings == InitSettings /\ [][NextSettings]_vars

(***************************************************************************)
(* handleStageAll / handleUnstageAll invoked whatever the panel renders:   *)
(* the handlers as functions, their early return included.                 *)
(***************************************************************************)
NextHandlers ==
    \/ StageEvery
    \/ handleStageAllReturns
    \/ handleUnstageAllReturns
    \/ \E i \in Slots : FetchResolved(i)
    \/ \E i \in Slots : FetchRejected(i)

SpecHandlers == Init /\ [][NextHandlers]_vars

(***************************************************************************)
(* Stage-all over every status matrix of at most MaxRows rows that the     *)
(* classifier lists (the other rows are in no list, so that no add ever    *)
(* touches them), when nothing but the adds of handleStageAll changes the  *)
(* repository.                                                             *)
(***************************************************************************)
ListedCodes ==
    {c \in Codes :
        ClassifyStatus(EmptyGitStatus, Row(A, c.head, c.workTree, c.stage))
            # EmptyGitStatus}

ListedMatrices(n) ==
    { [i \in 1..n |-> Row(fs[i], c[i].head, c[i].workTree, c[i].stage)] :
        fs \in FileOrders(n), c \in [1..n -> ListedCodes] }

InitStageAll ==
    /\ InitControls
    /\ settings = ConfiguredSettings
    /\ \E n \in 1..MaxRows : repo \in ListedMatrices(n)

NextStageAll ==
    \/ handleStageAll
    \/ \E i \in Slots : StageAllNext(i)
    \/ \E i \in Slots : StageAllResolved(i)
    \/ \E i \in Slots : StageAllRejected(i)
    \/ \E i \in Slots : FetchResolved(i)
    \/ \E i \in Slots : FetchRejected(i)

SpecStageAll == InitStageAll /\ [][NextStageAll]_vars

(***************************************************************************)
(* App with GitControls mounted: selecting, editing and saving files.      *)
(***************************************************************************)
NextApp ==
    \/ \E filePath \in SelectablePaths : handleFileSelect(filePath)
    \/ \E i \in Slots : ReadResolved(i)
    \/ \E i \in Slots : ReadRejected(i)
    \/ EditMarkdown
    \/ handleSave
    \/ \E i \in Slots : WriteResolved(i)
    \/ \E i \in Slots : WriteRejected(i)
    \/ \E i \in Slots : FetchResolved(i)
    \/ \E i \in Slots : FetchRejected(i)

SpecApp == Init /\ [][NextApp]_vars

(***************************************************************************)
(* Every external call is eventually resolved or rejected.                 *)
(***************************************************************************)
Settle(i) ==
    \/ FetchResolved(i) \/ FetchRejected(i)
    \/ (\E sha \in Hashes : CommitResolved(i, sha)) \/ CommitRejected(i)
    \/ PushResolved(i) \/ PushRejected(i)
    \/ PullResolved(i) \/ PullRejected(i)
    \/ StageFileResolved(i) \/ StageFileRejected(i)
    \/ UnstageFileResolved(i) \/ UnstageFileRejected(i)
    \/ StageAllNext(i) \/ StageAllResolved(i) \/ StageAllRejected(i)
    \/ UnstageAllNext(i) \/ UnstageAllResolved(i) \/ UnstageAllRejected(i)

FairSpec == Init /\ [][Next]_vars /\ \A i \in Slots : WF_vars(Settle(i))

(***************************************************************************)
(* The case table of the classifier, row by row, and what each row lists.  *)
(***************************************************************************)
InCaseTable(r) ==
    \/ r.head = "ABSENT" /\ r.workTree = "MODIFIED" /\ r.stage = "ABSENT"
    \/ r.head = "PRESENT" /\ r.workTree = "ABSENT" /\ r.stage = "ABSENT"
    \/ r.workTree = "ABSENT" /\ r.stage = "IDENTICAL"
    \/ r.workTree = "MODIFIED" /\ r.stage = "IDENTICAL"
    \/ r.workTree = "MODIFIED" /\ r.stage = "MODIFIED"
    \/ r.workTree = "MODIFIED" /\ r.stage = "MODIFIED_AGAIN"

TableStaged(r) ==
    IF r.head = "PRESENT" /\ r.workTree = "ABSENT" /\ r.stage = "ABSENT"
    THEN <<FileChange(r.filename, TRUE)>>
    ELSE IF r.workTree = "MODIFIED" /\ r.stage \in {"MODIFIED", "MODIFIED_AGAIN"}
    THEN <<FileChange(r.filename, FALSE)>>
    ELSE <<>>

TableUnstaged(r) ==
    IF r.head = "ABSENT" /\ r.workTree = "MODIFIED" /\ r.stage = "ABSENT"
    THEN <<FileChange(r.filename, FALSE)>>
    ELSE IF r.workTree = "ABSENT" /\ r.stage = "IDENTICAL"
    THEN <<FileChange(r.filename, TRUE)>>
    ELSE IF r.workTree = "MODIFIED" /\ r.stage \in {"IDENTICAL", "MODIFIED_AGAIN"}
    THEN <<FileChange(r.filename, FALSE)>>
    ELSE <<>>

\* The entries of a list that stem from the row of one file.
RECURSIVE EntriesOf(_, _)
EntriesOf(changes, filename) ==
    IF changes = <<>> THEN <<>>
    ELSE IF changes[1].filename = filename
         THEN <<changes[1]>> \o EntriesOf(Tail(changes), filename)
         ELSE EntriesOf(Tail(changes), filename)

\* The fetch of the mounted component has resolved.
Classified == last.handler = "fetchGitStatus" /\ last.outcome = "success"

(***************************************************************************)
(* C1: for every row of the status matrix that is a row of the case table, *)
(* the lists that fetchGitStatus sets hold exactly what the table lists    *)
(* for that row: the listed entries, with the listed isDeleted, and no     *)
(* other entry for that file.                                              *)
(***************************************************************************)
C1_TableRowsClassified ==
    Classified =>
        \A k \in 1..Len(repo) :
            InCaseTable(repo[k]) =>
                /\ EntriesOf(gitStatus[1].staged, repo[k].filename)
                       = TableStaged(repo[k])
                /\ EntriesOf(gitStatus[1].unstaged, repo[k].filename)
                       = TableUnstaged(repo[k])

\* A matrix with a staged deletion and a staged-and-modified file was classified.
C1_Witness ==
    /\ Classified
    /\ \E k \in 1..Len(repo) :
           repo[k].head = "PRESENT" /\ repo[k].workTree = "ABSENT"
           /\ repo[k].stage = "ABSENT"
           /\ EntriesOf(gitStatus[1].staged, repo[k].filename)
                  = <<FileChange(repo[k].filename, TRUE)>>
    /\ \E k \in 1..Len(repo) :
           repo[k].workTree = "MODIFIED" /\ repo[k].stage = "MODIFIED_AGAIN"
           /\ Len(EntriesOf(gitStatus[1].unstaged, repo[k].filename)) = 1

(***************************************************************************)
(* C2: a row of the status matrix that is not a row of the case table adds *)
(* no entry to staged and no entry to unstaged.                            *)
(***************************************************************************)
C2_OtherRowsOmitted ==
    Classified =>
        \A k \in 1..Len(repo) :
            ~InCaseTable(repo[k]) =>
                /\ EntriesOf(gitStatus[1].staged, repo[k].filename) = <<>>
                /\ EntriesOf(gitStatus[1].unstaged, repo[k].filename) = <<>>

\* A matrix of two rows outside the table, next to none inside, was classified.
C2_Witness ==
    /\ Classified
    /\ Len(repo) = 2
    /\ repo[1].head = "PRESENT" /\ repo[1].workTree = "MODIFIED"
       /\ repo[1].stage = "ABSENT"
    /\ repo[2].workTree = "ABSENT" /\ repo[2].stage = "MODIFIED_AGAIN"
    /\ gitStatus[1] = EmptyGitStatus

(***************************************************************************)
(* Vocabulary of the claims about the action handlers.                     *)
(***************************************************************************)
MutatingHandlers ==
    {"handleStageFile", "handleUnstageFile", "handleStageAll", "handleUnstageAll",
     "handleCommit", "handlePush", "handlePull"}

Ended(handler, outcome) == last.handler = handler /\ last.outcome = outcome

\* A mutating operation has run to its end, through the try or the catch block.
Completed ==
    last.handler \in MutatingHandlers /\ last.outcome \in {"success", "failure"}

\* The run issued exactly one call, the status fetch of fetchGitStatus, and
\* that fetch is now the youngest call in flight.
RefreshStarted ==
    /\ last.issued = <<StatusReq>>
    /\ calls # <<>>
    /\ calls[Len(calls)] = FetchCall

\* One call of the api per entry of the list, with its filename, in list order.
CallPerEntry(api, files) == [k \in 1..Len(files) |-> Req(api, files[k].filename)]

(***************************************************************************)
(* C3: when a mutating operation (stageFile, unstageFile, stageAll,        *)
(* unstageAll, commit, push, pull) has completed, by success or by         *)
(* failure of its external call, isLoading is false; and if every external *)
(* call is eventually settled, Loading never lasts forever.                *)
(***************************************************************************)
C3_LoadingCleared ==
    /\ [](Completed => ~isLoading)
    /\ (isLoading ~> ~isLoading)

\* A commit whose external call was rejected has completed.
C3_Witness == Ended("handleCommit", "failure") /\ ~isLoading

(***************************************************************************)
(* C4: when the status call of fetchGitStatus is rejected, gitStatus keeps *)
(* its value, statusMessage becomes the status-fetch-failed message and no *)
(* error leaves fetchGitStatus.                                            *)
(***************************************************************************)
C4_FetchFailureKeepsStatus ==
    [][(last'.handler = "fetchGitStatus" /\ last'.outcome = "failure") =>
          /\ gitStatus' = gitStatus
          /\ statusMessage' = Msg("statusFetchFailed", NoArg)
          /\ ~last'.rejected]_vars

\* A fetch was rejected while a classified status with entries was held.
C4_Witness ==
    /\ Ended("fetchGitStatus", "failure")
    /\ gitStatus # null
    /\ gitStatus[1] # EmptyGitStatus
    /\ statusMessage = Msg("statusFetchFailed", NoArg)

(***************************************************************************)
(* C5: handleStageAll iterates the unstaged list as it was when invoked;   *)
(* when all its calls succeed it has issued exactly one add per entry of   *)
(* that list, with the entry's filename, in list order, and then exactly   *)
(* one status fetch.                                                       *)
(***************************************************************************)
C5_StageAllCallsInOrder ==
    /\ Ended("handleStageAll", "invoke") =>
           /\ last.call.files = gitStatus[1].unstaged
           /\ last.call.files # <<>>
    /\ Ended("handleStageAll", "success") =>
           /\ last.call.log = CallPerEntry("add", last.call.files)
           /\ RefreshStarted

\* A stage-all over a list of two entries has succeeded.
C5_Witness ==
    /\ Ended("handleStageAll", "success")
    /\ Len(last.call.files) = 2
    /\ last.call.files[1].filename # last.call.files[2].filename

(***************************************************************************)
(* C6, as claimed: when the call of one file fails during stageAll or      *)
(* unstageAll, the calls of all files of the list have been issued by the  *)
(* time the operation ends and reports the failure.                        *)
(***************************************************************************)
C6_ContinueAndReport ==
    (Ended("handleStageAll", "failure") \/ Ended("handleUnstageAll", "failure")) =>
        Len(last.call.log) = Len(last.call.files)

(***************************************************************************)
(* C6, amended: when the call of one file fails during stageAll or         *)
(* unstageAll, the operation ends there: the calls issued are those of the *)
(* entries up to the failing one, in list order, nothing further is        *)
(* issued (no call for the remaining files, no status fetch), the failure  *)
(* message of the operation is set and isLoading is false.                 *)
(***************************************************************************)
C6_AbortOnFirstFailure ==
    /\ Ended("handleStageAll", "failure") =>
           /\ last.call.log
                  = SubSeq(CallPerEntry("add", last.call.files), 1, last.call.idx)
           /\ last.issued = <<>>
           /\ statusMessage = Msg("stageAllFailed", NoArg)
           /\ ~isLoading
    /\ Ended("handleUnstageAll", "failure") =>
           /\ last.call.log
                  = SubSeq(CallPerEntry("unstage", last.call.files), 1, last.call.idx)
           /\ last.issued = <<>>
           /\ statusMessage = Msg("unstageAllFailed", NoArg)
           /\ ~isLoading

\* The add of the first of two files was rejected.
C6_Witness ==
    /\ Ended("handleStageAll", "failure")
    /\ last.call.idx = 1
    /\ Len(last.call.files) = 2

(***************************************************************************)
(* C7, as claimed: the external commit is invoked only when the current    *)
(* staged list is non-empty and the commit message is non-empty.           *)
(***************************************************************************)
C7_CommitNeedsStagedAndMessage ==
    Ended("handleCommit", "invoke") =>
        /\ last.call.arg # <<"">>
        /\ gitStatus # null
        /\ Len(gitStatus[1].staged) > 0

(***************************************************************************)
(* C8: when the external commit resolves with a content hash, the status   *)
(* message is the commit-success text with exactly the first 7 characters  *)
(* of that hash, commitMessage is the empty string and one status fetch    *)
(* has been started.                                                       *)
(***************************************************************************)
C8_CommitSuccess ==
    Ended("handleCommit", "success") =>
        /\ statusMessage = Msg("committed", [k \in 1..7 |-> last.result[k]])
        /\ commitMessage = ""
        /\ RefreshStarted

\* A commit has resolved with a hash of more than 7 characters.
C8_Witness ==
    /\ Ended("handleCommit", "success")
    /\ Len(last.result) > 7
    /\ last.call.arg = <<"fix">>

(***************************************************************************)
(* C9, as claimed: every completed mutating operation (stage, unstage,     *)
(* stage-all, unstage-all, commit, push, pull) is followed by a status     *)
(* fetch, and so is every change of the selected file.                     *)
(***************************************************************************)
C9_FetchAfterEveryOperation ==
    /\ Completed => RefreshStarted
    /\ last.handler = "useEffect" => RefreshStarted

(***************************************************************************)
(* C9, amended: a status fetch is started by every change of the selected  *)
(* file and by every stage, unstage, stage-all, unstage-all, commit and    *)
(* pull whose external calls succeeded, in the run that completes the      *)
(* operation; push, and an operation whose external call failed, start     *)
(* none.                                                                   *)
(***************************************************************************)
C9_FetchAfterSuccessExceptPush ==
    /\ [](Completed =>
            IF last.outcome = "success" /\ last.handler # "handlePush"
            THEN RefreshStarted
            ELSE last.issued = <<>>)
    /\ [][selectedFile' # selectedFile =>
            /\ last'.handler = "useEffect"
            /\ RefreshStarted'
            /\ Len(calls') = Len(calls) + 1]_vars

\* After a change of the selected file, a stage of one file has succeeded.
C9_Witness ==
    /\ Ended("handleStageFile", "success")
    /\ selectedFile # null
    /\ RefreshStarted

(***************************************************************************)
(* C10, as claimed: while isLoading is true, every element that starts a   *)
(* mutating action (stage file, unstage file, stage-all, unstage-all,      *)
(* commit, push, pull) is disabled.                                        *)
(***************************************************************************)
C10_ActionsDisabledWhileLoading ==
    isLoading =>
        /\ ~StageAllButton
        /\ ~UnstageAllButton
        /\ \A filename \in Files :
               ~StageFileButton(filename) /\ ~UnstageFileButton(filename)
        /\ ~CommitButton
        /\ ~PushButton
        /\ ~PullButton

(***************************************************************************)
(* C11, as claimed: the external push and the external pull are invoked    *)
(* only when the settings hold a remote URL and a token; with either       *)
(* missing, handlePush and handlePull issue no external call.              *)
(***************************************************************************)
C11_PushPullNeedRemoteAndToken ==
    (Ended("handlePush", "invoke") \/ Ended("handlePull", "invoke")) =>
        /\ settings.git.remoteUrl # ""
        /\ settings.git.token # ""

(***************************************************************************)
(* C12: the run that completes a successful pull starts exactly one status *)
(* fetch; the run that completes a failed pull starts none; no run of      *)
(* handlePush (its invocation, its success, its failure) starts one.       *)
(***************************************************************************)
StatusFetches == Cardinality(InFlight({"status"}))

C12_PullRefreshesPushDoesNot ==
    [][/\ Ended("handlePull", "success")' =>
              /\ last'.issued = <<StatusReq>>
              /\ StatusFetches' = StatusFetches + 1
       /\ Ended("handlePull", "failure")' =>
              /\ last'.issued = <<>>
              /\ StatusFetches' = StatusFetches
       /\ last'.handler = "handlePush" =>
              /\ \A k \in 1..Len(last'.issued) : last'.issued[k] # StatusReq
              /\ StatusFetches' = StatusFetches]_vars

\* A pull has succeeded and its status fetch is the only call in flight.
C12_Witness ==
    /\ Ended("handlePull", "success")
    /\ calls = <<FetchCall>>
    /\ statusMessage = Msg("pulled", NoArg)

(***************************************************************************)
(* C13: both lists keep the order of the status matrix: when the row of    *)
(* one file comes before the row of another and both rows have an entry in *)
(* staged (resp. unstaged), the entry of the first comes before the entry  *)
(* of the second in staged (resp. unstaged).                               *)
(***************************************************************************)
KeepsMatrixOrder(changes) ==
    \A i, j \in 1..Len(repo) :
        i < j =>
            \A a, b \in 1..Len(changes) :
                (changes[a].filename = repo[i].filename
                 /\ changes[b].filename = repo[j].filename) => a < b

C13_ListsKeepMatrixOrder ==
    Classified =>
        /\ KeepsMatrixOrder(gitStatus[1].staged)
        /\ KeepsMatrixOrder(gitStatus[1].unstaged)

\* Two rows that are each listed in both lists were classified.
C13_Witness ==
    /\ Classified
    /\ Len(repo) = 2
    /\ Len(gitStatus[1].staged) = 2
    /\ Len(gitStatus[1].unstaged) = 2
    /\ gitStatus[1].staged[1].filename = repo[1].filename
    /\ gitStatus[1].unstaged[2].filename = repo[2].filename

(***************************************************************************)
(* C14: the lists that a resolved status fetch sets are a function of the  *)
(* status matrix alone: they are the classification of the matrix whatever *)
(* gitStatus, isLoading, statusMessage and commitMessage were, and a fetch *)
(* that resolves right after another, over the same matrix, sets the same  *)
(* lists again.                                                            *)
(***************************************************************************)
C14_ClassificationPure ==
    /\ [](Classified => gitStatus = <<ClassifyMatrix(repo)>>)
    /\ [][(Classified /\ Classified' /\ repo' = repo) => gitStatus' = gitStatus]_vars

\* A fetch has resolved over a held status with entries, while an operation
\* was loading and a commit message and a status message were set.
C14_Witness ==
    /\ Classified
    /\ gitStatus[1] # EmptyGitStatus
    /\ isLoading
    /\ commitMessage # ""
    /\ statusMessage # NoMessage

(***************************************************************************)
(* C15: handleUnstageAll iterates the staged list as it was when invoked   *)
(* (a non-empty list); when all its calls succeed it has issued exactly    *)
(* one unstage per entry of that list, with the entry's filename, in list  *)
(* order, and then exactly one status fetch.                               *)
(***************************************************************************)
C15_UnstageAllCallsInOrder ==
    /\ Ended("handleUnstageAll", "invoke") =>
           /\ last.call.files = gitStatus[1].staged
           /\ last.call.files # <<>>
    /\ Ended("handleUnstageAll", "success") =>
           /\ last.call.log = CallPerEntry("unstage", last.call.files)
           /\ RefreshStarted

\* An unstage-all over a list of two entries has succeeded.
C15_Witness ==
    /\ Ended("handleUnstageAll", "success")
    /\ Len(last.call.files) = 2
    /\ last.call.files[1].filename # last.call.files[2].filename

(***************************************************************************)
(* C16: a run of handleStageAll that starts while gitStatus is null or     *)
(* unstaged is empty (of handleUnstageAll: while gitStatus is null or      *)
(* staged is empty) issues no external call and leaves the calls in        *)
(* flight, isLoading, statusMessage and gitStatus as they were.            *)
(***************************************************************************)
NothingToDo(handler) ==
    IF gitStatus = null THEN TRUE
    ELSE IF handler = "handleStageAll" THEN Len(gitStatus[1].unstaged) = 0
    ELSE Len(gitStatus[1].staged) = 0

C16_NothingToDoChangesNothing ==
    [][\A handler \in {"handleStageAll", "handleUnstageAll"} :
          (/\ last'.handler = handler
           /\ last'.outcome \in {"invoke", "done"}
           /\ NothingToDo(handler)) =>
              /\ last'.outcome = "done"
              /\ last'.issued = <<>>
              /\ calls' = calls
              /\ isLoading' = isLoading
              /\ statusMessage' = statusMessage
              /\ gitStatus' = gitStatus]_vars

\* handleUnstageAll has returned at once over a status without staged entries.
C16_Witness ==
    /\ Ended("handleUnstageAll", "done")
    /\ gitStatus # null
    /\ gitStatus[1].staged = <<>>
    /\ gitStatus[1].unstaged # <<>>
    /\ ~isLoading

(***************************************************************************)
(* C17, as claimed: handleStageFile and handleUnstageFile each issue       *)
(* exactly one add (resp. unstage) with the filename, and every completed  *)
(* invocation, successful or not, has started a status fetch.              *)
(***************************************************************************)
OneFileHandlers ==
    {<<"handleStageFile", "add">>, <<"handleUnstageFile", "unstage">>}

C17_OneCallThenRefresh ==
    \A h \in OneFileHandlers :
        (Ended(h[1], "success") \/ Ended(h[1], "failure")) =>
            /\ last.call.log = <<Req(h[2], last.call.arg)>>
            /\ RefreshStarted

(***************************************************************************)
(* C17, amended: handleStageFile and handleUnstageFile each issue exactly  *)
(* one add (resp. unstage), with the filename of the entry whose button    *)
(* was pressed; when that call succeeds the invocation ends by starting    *)
(* one status fetch, when it fails it ends without starting any.           *)
(***************************************************************************)
ListedFilenames(changes) == {changes[k].filename : k \in 1..Len(changes)}

C17_OneCallThenRefreshOnSuccess ==
    \A h \in OneFileHandlers :
        /\ Ended(h[1], "invoke") =>
               /\ last.issued = <<Req(h[2], last.call.arg)>>
               /\ last.call.log = last.issued
               /\ last.call.arg \in ListedFilenames(IF h[2] = "add"
                                                    THEN gitStatus[1].unstaged
                                                    ELSE gitStatus[1].staged)
        /\ Ended(h[1], "success") =>
               /\ last.call.log = <<Req(h[2], last.call.arg)>>
               /\ RefreshStarted
        /\ Ended(h[1], "failure") =>
               /\ last.call.log = <<Req(h[2], last.call.arg)>>
               /\ last.issued = <<>>

\* The unstage of a file in a subdirectory has succeeded.
C17_Witness ==
    /\ Ended("handleUnstageFile", "success")
    /\ last.call.arg = B
    /\ RefreshStarted

(***************************************************************************)
(* C18: nothing is retried.  One invocation never issues the same external *)
(* call twice; the run that handles a failed call issues no call and       *)
(* leaves one call less in flight; and the number of mutating calls in     *)
(* flight grows only in a step that handles a UI event.                    *)
(***************************************************************************)
NoDuplicates(log) ==
    \A a, b \in 1..Len(log) : log[a] = log[b] => a = b

MutatingCalls == Cardinality(InFlight(MutatingApis))

C18_NoAutomaticRetry ==
    /\ [](\A i \in 1..Len(calls) : NoDuplicates(calls[i].log))
    /\ [](last.outcome \in {"success", "failure"} => NoDuplicates(last.call.log))
    /\ [][last'.outcome = "failure" =>
             /\ last'.issued = <<>>
             /\ Len(calls') = Len(calls) - 1
             /\ MutatingCalls' <= MutatingCalls]_vars
    /\ [][MutatingCalls' > MutatingCalls => clicks' = clicks + 1]_vars

\* A pull has failed and no mutating call is in flight.
C18_Witness ==
    /\ Ended("handlePull", "failure")
    /\ MutatingCalls = 0
    /\ statusMessage = Msg("pullFailed", NoArg)

(***************************************************************************)
(* C19: one invocation of handleStageAll or handleUnstageAll has one       *)
(* per-file call in flight at a time: its invocation issues one, each      *)
(* continuation replaces the call that resolved by the call of the next    *)
(* file, and the status fetch is issued by the run in which the call of    *)
(* the last file resolved, when no per-file call of the invocation is left.*)
(***************************************************************************)
CallsOf(handler) == Cardinality({i \in 1..Len(calls) : calls[i].handler = handler})

InCalls(c) == \E i \in 1..Len(calls) : calls[i] = c

C19_PerFileCallsSerialized ==
    [][\A handler \in {"handleStageAll", "handleUnstageAll"} :
          /\ Ended(handler, "invoke")' =>
                 /\ CallsOf(handler)' = CallsOf(handler) + 1
                 /\ Len(last'.issued) = 1
          /\ Ended(handler, "continue")' =>
                 /\ InCalls(last'.call)
                 /\ CallsOf(handler)' = CallsOf(handler)
                 /\ Len(last'.issued) = 1
                 /\ last'.issued[1] # StatusReq
                 /\ StatusFetches' = StatusFetches
          /\ Ended(handler, "success")' =>
                 /\ InCalls(last'.call)
                 /\ CallsOf(handler)' = CallsOf(handler) - 1
                 /\ last'.call.idx = Len(last'.call.files)
                 /\ Len(last'.call.log) = Len(last'.call.files)
                 /\ last'.issued = <<StatusReq>>
                 /\ StatusFetches' = StatusFetches + 1]_vars

\* The first of two unstage calls has resolved and the second is in flight.
C19_Witness ==
    /\ Ended("handleUnstageAll", "continue")
    /\ CallsOf("handleUnstageAll") = 1
    /\ calls[Len(calls)].idx = 2

(***************************************************************************)
(* C20, as claimed: whenever no external call is in flight and a status    *)
(* has been fetched, gitStatus is the classification of the repository's   *)
(* current status matrix.                                                  *)
(***************************************************************************)
C20_QuiescentStatusIsCurrent ==
    (calls = <<>> /\ gitStatus # null) => gitStatus[1] = ClassifyMatrix(repo)

(***************************************************************************)
(* The three trees behind a row: whether the index entry differs from      *)
(* HEAD, and whether the working copy differs from the index entry.        *)
(***************************************************************************)
IndexDiffersFromHead(r) ==
    \/ r.stage = "ABSENT" /\ r.head = "PRESENT"
    \/ r.stage \in {"MODIFIED", "MODIFIED_AGAIN"}

WorkTreeDiffersFromIndex(r) ==
    \/ r.stage = "ABSENT" /\ r.workTree # "ABSENT"
    \/ r.stage = "IDENTICAL" /\ r.workTree # "IDENTICAL"
    \/ r.stage = "MODIFIED_AGAIN"

(***************************************************************************)
(* C21, as claimed: every row whose index entry differs from HEAD has an   *)
(* entry in staged, and every row whose working copy differs from the      *)
(* index entry has an entry in unstaged; a row is left out of both lists   *)
(* only if neither differs.                                                *)
(***************************************************************************)
C21_ListsCoverActionableChanges ==
    Classified =>
        \A k \in 1..Len(repo) :
            /\ IndexDiffersFromHead(repo[k]) =>
                   EntriesOf(gitStatus[1].staged, repo[k].filename) # <<>>
            /\ WorkTreeDiffersFromIndex(repo[k]) =>
                   EntriesOf(gitStatus[1].unstaged, repo[k].filename) # <<>>

(***************************************************************************)
(* C22: when the external commit is rejected, commitMessage keeps its      *)
(* text, gitStatus is unchanged, no status fetch is started, statusMessage *)
(* becomes the commit-failed message and isLoading is false.               *)
(***************************************************************************)
C22_CommitFailureKeepsMessage ==
    [][Ended("handleCommit", "failure")' =>
          /\ commitMessage' = commitMessage
          /\ gitStatus' = gitStatus
          /\ last'.issued = <<>>
          /\ StatusFetches' = StatusFetches
          /\ statusMessage' = Msg("commitFailed", NoArg)
          /\ ~isLoading']_vars

\* A commit was rejected and its message is still in the textarea.
C22_Witness ==
    /\ Ended("handleCommit", "failure")
    /\ commitMessage = "fix"
    /\ last.call.arg = <<commitMessage>>
    /\ gitStatus # null
    /\ statusMessage = Msg("commitFailed", NoArg)

(***************************************************************************)
(* C23, as claimed: in every reachable state isLoading is true whenever a  *)
(* mutating external call (add, unstage, commit, push, pull) is in flight. *)
(***************************************************************************)
C23_LoadingWhileMutating == MutatingCalls > 0 => isLoading

(***************************************************************************)
(* C24, as claimed: when isLoading is false at the end of a successful     *)
(* stageFile, unstageFile, stageAll, unstageAll, commit or pull, the       *)
(* status fetch started by that operation has completed: none is in        *)
(* flight and gitStatus is the classification of the status matrix.        *)
(***************************************************************************)
C24_RefreshDoneWhenIdle ==
    (/\ last.handler \in MutatingHandlers \ {"handlePush"}
     /\ last.outcome = "success"
     /\ ~isLoading) =>
        /\ StatusFetches = 0
        /\ gitStatus = <<ClassifyMatrix(repo)>>

(***************************************************************************)
(* C27: in both lists, the isDeleted of an entry is true exactly when the  *)
(* workTree of the row it stems from is ABSENT, and one row has at most    *)
(* one entry in staged and at most one in unstaged.                        *)
(***************************************************************************)
DeletedIffAbsent(changes, r) ==
    LET entries == EntriesOf(changes, r.filename)
    IN  /\ Len(entries) <= 1
        /\ \A k \in 1..Len(entries) :
               entries[k].isDeleted = (r.workTree = "ABSENT")

C27_DeletedIffWorkTreeAbsent ==
    Classified =>
        \A k \in 1..Len(repo) :
            /\ DeletedIffAbsent(gitStatus[1].staged, repo[k])
            /\ DeletedIffAbsent(gitStatus[1].unstaged, repo[k])

\* A staged deletion, an unstaged deletion next to it, were classified.
C27_Witness ==
    /\ Classified
    /\ \E k \in 1..Len(gitStatus[1].staged) : gitStatus[1].staged[k].isDeleted
    /\ \E k \in 1..Len(gitStatus[1].unstaged) : gitStatus[1].unstaged[k].isDeleted

(***************************************************************************)
(* C26: when an add makes the index entry of a file equal to its working   *)
(* copy and nothing else changes the repository, then once all adds of a   *)
(* stage-all have succeeded no file of its list is unstaged in the         *)
(* repository any more and each of them whose index entry differs from     *)
(* HEAD is staged there; and the refresh that follows sets an empty        *)
(* unstaged list and lists each of those files in staged.                  *)
(***************************************************************************)
RowOf(filename) ==
    repo[CHOOSE k \in 1..Len(repo) : repo[k].filename = filename]

StagedNotUnstaged(files, gs) ==
    \A k \in 1..Len(files) :
        /\ EntriesOf(gs.unstaged, files[k].filename) = <<>>
        /\ IndexDiffersFromHead(RowOf(files[k].filename)) =>
               EntriesOf(gs.staged, files[k].filename) # <<>>

C26_StageAllEmptiesUnstaged ==
    /\ [](Ended("handleStageAll", "success") =>
              StagedNotUnstaged(last.call.files, ClassifyMatrix(repo)))
    /\ [][(Ended("handleStageAll", "success") /\ Classified') =>
              /\ gitStatus'[1].unstaged = <<>>
              /\ StagedNotUnstaged(last.call.files, gitStatus[1])']_vars
    /\ []((Classified /\ clicks > 0) => gitStatus[1].unstaged = <<>>)

\* A stage-all of a modified file and a deleted file was refreshed.
C26_Witness ==
    /\ Classified
    /\ clicks > 0
    /\ gitStatus[1].unstaged = <<>>
    /\ Len(gitStatus[1].staged) = 2
    /\ gitStatus[1].staged[1].isDeleted
    /\ ~gitStatus[1].staged[2].isDeleted

(***************************************************************************)
(* C25: whenever App.handleSave writes to a path, the content written is   *)
(* the content that was read from that path, possibly edited since: it is  *)
(* never the content of another file, also when the read of the selected   *)
(* file failed or is still in flight.                                      *)
(***************************************************************************)
SavedFrom(call) ==
    IF call.arg.content = NoText THEN null ELSE call.arg.content[1].from

C25_SavedContentWasReadFromPath ==
    Ended("handleSave", "invoke") => SavedFrom(last.call) = last.call.arg.path

====
